---------------------------- MODULE Spec2Model ----------------------------
(***************************************************************************)
(* Model of the Ethereum wallet composer, EthereumCLI::print, of           *)
(* src/wagyu/cli/ethereum.rs: the loop over `count`, the dispatch on       *)
(* (wallet_values, hd_values), the derivation-path resolution, the         *)
(* mnemonic generation / recovery over the eight wordlists and the         *)
(* construction of the EthereumWallet that is printed.                     *)
(*                                                                         *)
(* The key algebra (crate::ethereum, crate::model) is not part of the      *)
(* source file; its operations are modelled from the specification's       *)
(* capability interface as total functions returning Result values.        *)
(***************************************************************************)
EXTENDS Naturals, Sequences, FiniteSets, TLC

(***************************************************************************)
(* Bounds of the model.                                                    *)
(***************************************************************************)
MaxCount == 3

MaxEntropy == 1

MaxRepeat == 2

(***************************************************************************)
(* Option<T> and Result<T, E>.                                             *)
(***************************************************************************)
None == <<>>

Some(x) == <<x>>

IsSome(o) == o # None

Opt(S) == {None} \cup {Some(x) : x \in S}

Ok(v) == [ok |-> TRUE, val |-> v]

Err(e) == [ok |-> FALSE, err |-> e]

\* Result::or : self when self is Ok, otherwise the (already evaluated) argument.
Or(a, b) == IF a.ok THEN a ELSE b

(***************************************************************************)
(* Key algebra: plain keys and addresses.  A key object is an identifier;  *)
(* its string form and its parser are separate operations.                 *)
(***************************************************************************)
Entropy == 0 .. MaxEntropy

\* PrivateKey::new(rng): the zero scalar is not a valid secret key.
PrivateKeyNew(e) ==
  IF e = 0 THEN Err("InvalidPrivateKey") ELSE Ok([secret |-> "rnd" \o ToString(e)])

\* PrivateKey::from_str: hexadecimal, case-insensitive.
PrivateKeyFromStr(s) ==
  CASE s = "4c0883a6" -> Ok([secret |-> "4c0883a6"])
    [] s = "4C0883A6" -> Ok([secret |-> "4c0883a6"])
    [] OTHER -> Err("InvalidPrivateKey")

PrivateKeyToString(k) == k.secret

PrivateKeyToPublicKey(k) == [point |-> "G*" \o k.secret]

\* PublicKey::from_str
PublicKeyFromStr(s) ==
  CASE s = "pub(G*4c0883a6)" -> Ok([point |-> "G*4c0883a6"])
    [] OTHER -> Err("InvalidPublicKey")

PublicKeyToString(p) == "pub(" \o p.point \o ")"

\* PublicKey::to_address
PublicKeyToAddress(p) == Ok([hash |-> "keccak(" \o p.point \o ")"])

\* Address::from_str: hexadecimal in any case; the result is the address object.
AddressFromStr(s) ==
  CASE s = "0xab5801a7" -> Ok([hash |-> "ab5801a7"])
    [] s = "0xAB5801A7" -> Ok([hash |-> "ab5801a7"])
    [] s = "0xAb5801a7" -> Ok([hash |-> "ab5801a7"])
    [] OTHER -> Err("InvalidAddress")

\* Address::to_string: the canonical (checksummed) form.
AddressToString(a) == IF a.hash = "ab5801a7" THEN "0xAb5801a7" ELSE "0x" \o a.hash

(***************************************************************************)
(* Key algebra: derivation paths and extended keys.                        *)
(***************************************************************************)
NumericIndexes == {"0", "5"}

HardenedPaths ==
  {"m/44'/60'/0'/" \o n : n \in NumericIndexes}
    \cup {"m/44'/60'/" \o n \o "'/0" : n \in NumericIndexes}
    \cup {"m/44'/60'/" \o n \o "'/0/0" : n \in NumericIndexes}
    \cup {"m/0'/1"}

NormalPaths == {"m/0/1"}

\* DerivationPath::from_str
DerivationPathFromStr(s) ==
  IF s \in HardenedPaths \cup NormalPaths THEN Ok(s) ELSE Err("InvalidDerivationPath")

\* An extended key object: private or public, the root it descends from and the
\* derivation steps applied to it.
ExtendedPrivateKeyFromStr(s) ==
  CASE s = "xprv(A)" -> Ok([t |-> "prv", root |-> "A", chain |-> ""])
    [] OTHER -> Err("InvalidExtendedKey")

ExtendedPublicKeyFromStr(s) ==
  CASE s = "xpub(A)" -> Ok([t |-> "pub", root |-> "A", chain |-> ""])
    [] OTHER -> Err("InvalidExtendedKey")

ExtendedPrivateKeyDerive(k, p) ==
  Ok([t |-> "prv", root |-> k.root, chain |-> k.chain \o "~" \o p])

\* Public-only derivation: hardened segments need the private key.
ExtendedPublicKeyDerive(k, p) ==
  IF p \in HardenedPaths THEN Err("InvalidDerivationPath")
  ELSE Ok([t |-> "pub", root |-> k.root, chain |-> k.chain \o "~" \o p])

ToExtendedPublicKey(k) == [t |-> "pub", root |-> k.root, chain |-> k.chain]

ExtendedPrivateKeyToString(k) == "xprv(" \o k.root \o k.chain \o ")"

ExtendedPublicKeyToString(k) == "xpub(" \o k.root \o k.chain \o ")"

ExtendedPrivateKeyToPrivateKey(k) == [secret |-> k.root \o k.chain]

ExtendedPublicKeyToPublicKey(k) == [point |-> "G*" \o k.root \o k.chain]

(***************************************************************************)
(* Key algebra: mnemonics.  `alg` is the algebra's verdict on the phrase   *)
(* the caller supplied: the wordlists that validate it and whether its     *)
(* seed yields a master key.                                               *)
(***************************************************************************)
ChineseSimplified == "chinese_simplified"

ChineseTraditional == "chinese_traditional"

English == "english"

French == "french"

Italian == "italian"

Japanese == "japanese"

Korean == "korean"

Spanish == "spanish"

Wordlists ==
  <<ChineseSimplified, ChineseTraditional, English, French, Italian, Japanese, Korean, Spanish>>

WordlistSet == {Wordlists[n] : n \in 1 .. Len(Wordlists)}

ValidWordCounts == {12, 15, 18, 21, 24}

\* Mnemonic::to_string: words joined by single spaces.
NormalizePhrase(s) == IF s = "legal  winner" THEN "legal winner" ELSE s

\* Mnemonic::<EW>::from_phrase
MnemonicFromPhrase(EW, phrase, alg) ==
  IF EW \in alg.validates
  THEN Ok([wordlist |-> EW, phrase |-> NormalizePhrase(phrase), supplied |-> TRUE])
  ELSE Err("InvalidMnemonic")

\* Mnemonic::<EW>::new(word_count, rng)
MnemonicNew(EW, word_count, e) ==
  IF word_count \in ValidWordCounts
  THEN Ok([wordlist |-> EW,
           phrase |-> EW \o ":" \o ToString(word_count) \o ":" \o ToString(e),
           supplied |-> FALSE])
  ELSE Err("InvalidWordCount")

MnemonicToString(m) == m.phrase

\* Mnemonic::to_extended_private_key: the seed is a function of the phrase and the
\* password, not of the wordlist that validated the phrase.
MnemonicToExtendedPrivateKey(m, password, alg) ==
  IF m.supplied /\ ~alg.seed_ok THEN Err("InvalidExtendedKey")
  ELSE Ok([t |-> "prv",
           root |-> "seed(" \o m.phrase \o "|"
                      \o (IF IsSome(password) THEN password[1] ELSE "") \o ")",
           chain |-> ""])

(***************************************************************************)
(* EthereumWallet and the outcome of one loop iteration.                   *)
(***************************************************************************)
\* EthereumWallet { ..Default::default() }
DefaultWallet ==
  [path |-> None, password |-> None, mnemonic |-> None,
   extended_private_key |-> None, extended_public_key |-> None,
   private_key |-> None, public_key |-> None, address |-> ""]

\* The iteration built a wallet / left print with `?` or `return Err` / hit unreachable!().
\* `path` is the local of line 265, `via` the wordlist type parameter of the
\* process_mnemonic call whose result was used.
Built(w, p, v) == [kind |-> "Ok", wallet |-> w, error |-> "", path |-> p, via |-> v]

Failed(e, p) == [kind |-> "Err", wallet |-> DefaultWallet, error |-> e, path |-> p, via |-> None]

Unreachable(p) ==
  [kind |-> "Panic", wallet |-> DefaultWallet, error |-> "", path |-> p, via |-> None]

(***************************************************************************)
(* (None, None): a fresh random wallet.                                    *)
(***************************************************************************)
RandomWallet(e) ==
  LET private_key == PrivateKeyNew(e) IN
  IF ~private_key.ok THEN Failed(private_key.err, None) ELSE
  LET public_key == PrivateKeyToPublicKey(private_key.val)
      address == PublicKeyToAddress(public_key) IN
  IF ~address.ok THEN Failed(address.err, None) ELSE
  Built([DefaultWallet EXCEPT
           !.private_key = Some(PrivateKeyToString(private_key.val)),
           !.public_key = Some(PublicKeyToString(public_key)),
           !.address = AddressToString(address.val)], None, None)

(***************************************************************************)
(* (Some(wallet_values), None): import of a private key, a public key or   *)
(* an address.                                                             *)
(***************************************************************************)
\* Both arms of the match on from_str build the same wallet; the Err arm parses
\* again and leaves with `?`.
ImportPrivateKey(s) ==
  LET private_key == PrivateKeyFromStr(s) IN
  IF ~private_key.ok THEN Failed(private_key.err, None) ELSE
  LET public_key == PrivateKeyToPublicKey(private_key.val)
      address == PublicKeyToAddress(public_key) IN
  IF ~address.ok THEN Failed(address.err, None) ELSE
  Built([DefaultWallet EXCEPT
           !.private_key = Some(PrivateKeyToString(private_key.val)),
           !.public_key = Some(PublicKeyToString(public_key)),
           !.address = AddressToString(address.val)], None, None)

ImportPublicKey(s) ==
  LET public_key == PublicKeyFromStr(s) IN
  IF ~public_key.ok THEN Failed(public_key.err, None) ELSE
  LET address == PublicKeyToAddress(public_key.val) IN
  IF ~address.ok THEN Failed(address.err, None) ELSE
  Built([DefaultWallet EXCEPT
           !.public_key = Some(PublicKeyToString(public_key.val)),
           !.address = AddressToString(address.val)], None, None)

\* The address import echoing the caller's string.
ImportAddress_Verbatim(s) ==
  LET address == AddressFromStr(s) IN
  IF address.ok
  THEN Built([DefaultWallet EXCEPT !.address = s], None, None)
  ELSE Failed("AddressError", None)

ImportAddress(s) ==
  LET address == AddressFromStr(s) IN
  IF address.ok
  THEN Built([DefaultWallet EXCEPT !.address = AddressToString(address.val)], None, None)
  ELSE Failed("AddressError", None)

ImportWallet(wallet_values) ==
  LET private_key == wallet_values.private_key
      public_key == wallet_values.public_key
      address == wallet_values.address IN
  CASE IsSome(private_key) /\ public_key = None /\ address = None ->
         ImportPrivateKey(private_key[1])
    [] private_key = None /\ IsSome(public_key) /\ address = None ->
         ImportPublicKey(public_key[1])
    [] private_key = None /\ public_key = None /\ IsSome(address) ->
         ImportAddress(address[1])
    [] OTHER -> Unreachable(None)

(***************************************************************************)
(* (None, Some(hd_values)): hierarchical-deterministic wallets.            *)
(***************************************************************************)
\* The pair (String, ExtendedPrivateKey) that process_mnemonic returns, with the
\* wordlist type parameter EW it was called with.
process_mnemonic(EW, mnemonic, word_count, password, e, alg) ==
  LET m == IF IsSome(mnemonic)
           THEN MnemonicFromPhrase(EW, mnemonic[1], alg)
           ELSE MnemonicNew(EW, word_count, e) IN
  IF ~m.ok THEN m ELSE
  LET master == MnemonicToExtendedPrivateKey(m.val, password, alg) IN
  IF ~master.ok THEN master ELSE
  Ok([mnemonic |-> MnemonicToString(m.val), master |-> master.val, wordlist |-> EW])

DEFAULT_WORD_COUNT == 12

\* hd_values.index.unwrap_or("0")
IndexOf(hd_values) == IF IsSome(hd_values.index) THEN hd_values.index[1] ELSE "0"

\* The resolution with the keepkey template taken from the ethereum arm.
ResolvePath_KeepkeyAsEthereum(path, index) ==
  CASE path = Some("ethereum") -> "m/44'/60'/0'/" \o index
    [] path = Some("keepkey") -> "m/44'/60'/0'/" \o index
    [] path = Some("ledger-legacy") -> "m/44'/60'/0'/" \o index
    [] path = Some("ledger-live") -> "m/44'/60'/" \o index \o "'/0/0"
    [] path = Some("trezor") -> "m/44'/60'/0'/" \o index
    [] path = None -> "m/44'/60'/0'/" \o index
    [] OTHER -> path[1]

\* The match on hd_values.path that sets the local `path`.
ResolvePath(path, index) ==
  CASE path = Some("ethereum") -> "m/44'/60'/0'/" \o index
    [] path = Some("keepkey") -> "m/44'/60'/" \o index \o "'/0"
    [] path = Some("ledger-legacy") -> "m/44'/60'/0'/" \o index
    [] path = Some("ledger-live") -> "m/44'/60'/" \o index \o "'/0/0"
    [] path = Some("trezor") -> "m/44'/60'/0'/" \o index
    [] path = None -> "m/44'/60'/0'/" \o index
    [] OTHER -> path[1]

WordCountOf(hd_values) ==
  IF IsSome(hd_values.word_count) THEN hd_values.word_count[1] ELSE DEFAULT_WORD_COUNT

\* The generate branch deaf to the requested language.
GenerateWordlist_IgnoreLanguage(language) == English

\* The wordlist the generate branch instantiates process_mnemonic with.
GenerateWordlist(language) ==
  CASE language = Some("chinese_simplified") -> ChineseSimplified
    [] language = Some("chinese_traditional") -> ChineseTraditional
    [] language = Some("english") -> English
    [] language = Some("french") -> French
    [] language = Some("italian") -> Italian
    [] language = Some("japanese") -> Japanese
    [] language = Some("korean") -> Korean
    [] language = Some("spanish") -> Spanish
    [] OTHER -> English

\* What each arm of the match on (mnemonic, extended_private_key, extended_public_key)
\* yields: the triple, the final_path it leaves and the wordlist used.
Keys(mnemonic, xprv, xpub, final_path, via) ==
  Ok([mnemonic |-> mnemonic, extended_private_key |-> xprv, extended_public_key |-> xpub,
      final_path |-> final_path, via |-> via])

GenerateBranch(hd_values, path, word_count, password, e, alg) ==
  LET pm == process_mnemonic(GenerateWordlist(hd_values.language), None, word_count,
                             password, e, alg) IN
  IF ~pm.ok THEN pm ELSE
  LET dp == DerivationPathFromStr(path) IN
  IF ~dp.ok THEN dp ELSE
  LET extended_private_key == ExtendedPrivateKeyDerive(pm.val.master, dp.val) IN
  IF ~extended_private_key.ok THEN extended_private_key ELSE
  Keys(Some(pm.val.mnemonic), Some(extended_private_key.val),
       ToExtendedPublicKey(extended_private_key.val), Some(path), Some(pm.val.wordlist))

\* The .or chain with the English wordlist tried before the two Chinese ones.
RecoverMnemonic_EnglishFirst(mnemonic, word_count, password, e, alg) ==
  Or(Or(Or(Or(Or(Or(Or(
    process_mnemonic(English, Some(mnemonic), word_count, password, e, alg),
    process_mnemonic(ChineseSimplified, Some(mnemonic), word_count, password, e, alg)),
    process_mnemonic(ChineseTraditional, Some(mnemonic), word_count, password, e, alg)),
    process_mnemonic(French, Some(mnemonic), word_count, password, e, alg)),
    process_mnemonic(Italian, Some(mnemonic), word_count, password, e, alg)),
    process_mnemonic(Japanese, Some(mnemonic), word_count, password, e, alg)),
    process_mnemonic(Korean, Some(mnemonic), word_count, password, e, alg)),
    process_mnemonic(Spanish, Some(mnemonic), word_count, password, e, alg))

\* The .or chain: every process_mnemonic call is evaluated, the first Ok one is kept,
\* and when none is Ok the error of the last call is the error.
RecoverMnemonic(mnemonic, word_count, password, e, alg) ==
  Or(Or(Or(Or(Or(Or(Or(
    process_mnemonic(ChineseSimplified, Some(mnemonic), word_count, password, e, alg),
    process_mnemonic(ChineseTraditional, Some(mnemonic), word_count, password, e, alg)),
    process_mnemonic(English, Some(mnemonic), word_count, password, e, alg)),
    process_mnemonic(French, Some(mnemonic), word_count, password, e, alg)),
    process_mnemonic(Italian, Some(mnemonic), word_count, password, e, alg)),
    process_mnemonic(Japanese, Some(mnemonic), word_count, password, e, alg)),
    process_mnemonic(Korean, Some(mnemonic), word_count, password, e, alg)),
    process_mnemonic(Spanish, Some(mnemonic), word_count, password, e, alg))

\* The mnemonic arm parsing the derivation path before it recovers the phrase.
MnemonicBranch_PathFirst(hd_values, path, word_count, password, e, alg) ==
  LET dp == DerivationPathFromStr(path) IN
  IF ~dp.ok THEN dp ELSE
  LET pm == RecoverMnemonic(hd_values.mnemonic[1], word_count, password, e, alg) IN
  IF ~pm.ok THEN pm ELSE
  LET extended_private_key == ExtendedPrivateKeyDerive(pm.val.master, dp.val) IN
  IF ~extended_private_key.ok THEN extended_private_key ELSE
  Keys(Some(pm.val.mnemonic), Some(extended_private_key.val),
       ToExtendedPublicKey(extended_private_key.val), Some(path), Some(pm.val.wordlist))

\* The mnemonic arm trying the wordlist named by hd_values.language before the chain.
MnemonicBranch_HintFirst(hd_values, path, word_count, password, e, alg) ==
  LET hinted == process_mnemonic(GenerateWordlist(hd_values.language),
                                 hd_values.mnemonic, word_count, password, e, alg)
      pm == Or(hinted,
               RecoverMnemonic(hd_values.mnemonic[1], word_count, password, e, alg)) IN
  IF ~pm.ok THEN pm ELSE
  LET dp == DerivationPathFromStr(path) IN
  IF ~dp.ok THEN dp ELSE
  LET extended_private_key == ExtendedPrivateKeyDerive(pm.val.master, dp.val) IN
  IF ~extended_private_key.ok THEN extended_private_key ELSE
  Keys(Some(pm.val.mnemonic), Some(extended_private_key.val),
       ToExtendedPublicKey(extended_private_key.val), Some(path), Some(pm.val.wordlist))

MnemonicBranch(hd_values, path, word_count, password, e, alg) ==
  LET pm == RecoverMnemonic(hd_values.mnemonic[1], word_count, password, e, alg) IN
  IF ~pm.ok THEN pm ELSE
  LET dp == DerivationPathFromStr(path) IN
  IF ~dp.ok THEN dp ELSE
  LET extended_private_key == ExtendedPrivateKeyDerive(pm.val.master, dp.val) IN
  IF ~extended_private_key.ok THEN extended_private_key ELSE
  Keys(Some(pm.val.mnemonic), Some(extended_private_key.val),
       ToExtendedPublicKey(extended_private_key.val), Some(path), Some(pm.val.wordlist))

\* The extended private key arm deriving along the resolved path whether or not a path
\* was requested.
ExtendedPrivateBranch_AlwaysDerive(hd_values, path) ==
  LET parsed == ExtendedPrivateKeyFromStr(hd_values.extended_private_key[1]) IN
  IF ~parsed.ok THEN parsed ELSE
  LET dp == DerivationPathFromStr(path) IN
  IF ~dp.ok THEN dp ELSE
  LET extended_private_key == ExtendedPrivateKeyDerive(parsed.val, dp.val) IN
  IF ~extended_private_key.ok THEN extended_private_key ELSE
  Keys(None, Some(extended_private_key.val),
       ToExtendedPublicKey(extended_private_key.val), Some(path), None)

ExtendedPrivateBranch(hd_values, path) ==
  LET parsed == ExtendedPrivateKeyFromStr(hd_values.extended_private_key[1]) IN
  IF ~parsed.ok THEN parsed ELSE
  IF IsSome(hd_values.path)
  THEN LET dp == DerivationPathFromStr(path) IN
       IF ~dp.ok THEN dp ELSE
       LET extended_private_key == ExtendedPrivateKeyDerive(parsed.val, dp.val) IN
       IF ~extended_private_key.ok THEN extended_private_key ELSE
       Keys(None, Some(extended_private_key.val),
            ToExtendedPublicKey(extended_private_key.val), Some(path), None)
  ELSE Keys(None, Some(parsed.val), ToExtendedPublicKey(parsed.val), None, None)

\* The extended public key arm deriving along the resolved path as soon as an index
\* is supplied, not only when a path is.
ExtendedPublicBranch_DeriveOnIndex(hd_values, path) ==
  LET parsed == ExtendedPublicKeyFromStr(hd_values.extended_public_key[1]) IN
  IF ~parsed.ok THEN parsed ELSE
  IF IsSome(hd_values.path) \/ IsSome(hd_values.index)
  THEN LET dp == DerivationPathFromStr(path) IN
       IF ~dp.ok THEN dp ELSE
       LET extended_public_key == ExtendedPublicKeyDerive(parsed.val, dp.val) IN
       IF ~extended_public_key.ok THEN extended_public_key ELSE
       Keys(None, None, extended_public_key.val, Some(path), None)
  ELSE Keys(None, None, parsed.val, None, None)

ExtendedPublicBranch(hd_values, path) ==
  LET parsed == ExtendedPublicKeyFromStr(hd_values.extended_public_key[1]) IN
  IF ~parsed.ok THEN parsed ELSE
  IF IsSome(hd_values.path)
  THEN LET dp == DerivationPathFromStr(path) IN
       IF ~dp.ok THEN dp ELSE
       LET extended_public_key == ExtendedPublicKeyDerive(parsed.val, dp.val) IN
       IF ~extended_public_key.ok THEN extended_public_key ELSE
       Keys(None, None, extended_public_key.val, Some(path), None)
  ELSE Keys(None, None, parsed.val, None, None)

\* Lines 350-364: the wallet built from the triple, once the arm has not left with `?`.
HdWalletOf(hd_values, keys, path) ==
  IF ~keys.ok THEN Failed(keys.err, Some(path)) ELSE
  LET extended_private_key == keys.val.extended_private_key
      extended_public_key == keys.val.extended_public_key
      private_key ==
        IF IsSome(extended_private_key)
        THEN Some(PrivateKeyToString(ExtendedPrivateKeyToPrivateKey(extended_private_key[1])))
        ELSE None
      public_key == ExtendedPublicKeyToPublicKey(extended_public_key)
      address == PublicKeyToAddress(public_key) IN
  IF ~address.ok THEN Failed(address.err, Some(path)) ELSE
  Built([path |-> keys.val.final_path,
         password |-> hd_values.password,
         mnemonic |-> keys.val.mnemonic,
         extended_private_key |->
           IF IsSome(extended_private_key)
           THEN Some(ExtendedPrivateKeyToString(extended_private_key[1]))
           ELSE None,
         extended_public_key |-> Some(ExtendedPublicKeyToString(extended_public_key)),
         private_key |-> private_key,
         public_key |-> Some(PublicKeyToString(public_key)),
         address |-> AddressToString(address.val)],
        Some(path), keys.val.via)

HdWallet(hd_values, e, alg) ==
  LET index == IndexOf(hd_values)
      path == ResolvePath(hd_values.path, index)
      word_count == WordCountOf(hd_values)
      password == hd_values.password
      mnemonic == hd_values.mnemonic
      xprv == hd_values.extended_private_key
      xpub == hd_values.extended_public_key IN
  CASE mnemonic = None /\ xprv = None /\ xpub = None ->
         HdWalletOf(hd_values,
                    GenerateBranch(hd_values, path, word_count, password, e, alg), path)
    [] IsSome(mnemonic) /\ xprv = None /\ xpub = None ->
         HdWalletOf(hd_values,
                    MnemonicBranch(hd_values, path, word_count, password, e, alg), path)
    [] mnemonic = None /\ IsSome(xprv) /\ xpub = None ->
         HdWalletOf(hd_values, ExtendedPrivateBranch(hd_values, path), path)
    [] mnemonic = None /\ xprv = None /\ IsSome(xpub) ->
         HdWalletOf(hd_values, ExtendedPublicBranch(hd_values, path), path)
    [] OTHER -> Unreachable(Some(path))

(***************************************************************************)
(* One pass of the loop body: the match on (wallet_values, hd_values).     *)
(***************************************************************************)
WalletOf(opts, e, alg) ==
  CASE opts.wallet_values = None /\ opts.hd_values = None -> RandomWallet(e)
    [] IsSome(opts.wallet_values) /\ opts.hd_values = None ->
         ImportWallet(opts.wallet_values[1])
    [] opts.wallet_values = None /\ IsSome(opts.hd_values) ->
         HdWallet(opts.hd_values[1], e, alg)
    [] OTHER -> Unreachable(None)

(***************************************************************************)
(* The state of a run of print(options).                                   *)
(***************************************************************************)
VARIABLES
  options,   \* the EthereumOptions print was called with
  algebra,   \* the key algebra's verdict on the supplied mnemonic phrase
  i,         \* passes of `for _ in 0..options.count` started so far
  printed,   \* the wallets written by println!, oldest first
  result,    \* Running, or how print ended: Ok, Err(kind) or Panic
  path,      \* the local `path` of the last pass through the HD arm
  via        \* the wordlist whose process_mnemonic result the last pass used

vars == <<options, algebra, i, printed, result, path, via>>

Running == [kind |-> "Running", error |-> ""]

ReturnedOk == [kind |-> "Ok", error |-> ""]

ReturnedErr(e) == [kind |-> "Err", error |-> e]

Panicked == [kind |-> "Panic", error |-> ""]

\* println! of the wallet, as JSON or through Display.
Println(wallet, json) == [format |-> IF json THEN "json" ELSE "text", wallet |-> wallet]

\* The loop with a failed pass skipped instead of ending print.
Iteration_SkipFailed ==
  /\ result = Running
  /\ i < options.count
  /\ \E e \in Entropy :
       LET out == WalletOf(options, e, algebra) IN
       /\ i' = i + 1
       /\ path' = out.path
       /\ via' = out.via
       /\ printed' = IF out.kind = "Ok"
                     THEN Append(printed, Println(out.wallet, options.json))
                     ELSE printed
       /\ result' = Running
  /\ UNCHANGED <<options, algebra>>

\* One pass of the loop body, lines 193-372.
Iteration ==
  /\ result = Running
  /\ i < options.count
  /\ \E e \in Entropy :
       LET out == WalletOf(options, e, algebra) IN
       /\ i' = i + 1
       /\ path' = out.path
       /\ via' = out.via
       /\ printed' = IF out.kind = "Ok"
                     THEN Append(printed, Println(out.wallet, options.json))
                     ELSE printed
       /\ result' = CASE out.kind = "Ok" -> Running
                      [] out.kind = "Err" -> ReturnedErr(out.error)
                      [] OTHER -> Panicked
  /\ UNCHANGED <<options, algebra>>

\* The loop is exhausted: Ok(()) at line 375.
Return ==
  /\ result = Running
  /\ i = options.count
  /\ result' = ReturnedOk
  /\ UNCHANGED <<options, algebra, i, printed, path, via>>

Next == Iteration \/ Return

(***************************************************************************)
(* The inputs print is run on.                                             *)
(***************************************************************************)
EthereumOptions(wallet_values, hd_values, count, json) ==
  [wallet_values |-> wallet_values, hd_values |-> hd_values, count |-> count, json |-> json]

\* HdValues { ..Default::default() }
DefaultHdValues ==
  [account |-> None, change |-> None, extended_private_key |-> None,
   extended_public_key |-> None, index |-> None, language |-> None, mnemonic |-> None,
   password |-> None, path |-> None, word_count |-> None]

PrivateKeyStrings == {"4c0883a6", "4C0883A6", "not-a-key"}

PublicKeyStrings == {"pub(G*4c0883a6)", "not-a-point"}

AddressStrings == {"0xab5801a7", "0xAB5801A7", "0xAb5801a7", "0xnothex"}

ExtendedPrivateKeyStrings == {"xprv(A)", "xprv-bad"}

ExtendedPublicKeyStrings == {"xpub(A)", "xpub-bad"}

IndexStrings == {"0", "5", "x"}

PathStrings ==
  {"ethereum", "keepkey", "ledger-legacy", "ledger-live", "trezor",
   "m/0/1", "m/0'/1", "Ethereum", "m/44'/60'/0'/{index}"}

LanguageStrings == WordlistSet \cup {"klingon"}

WordCounts == {12, 13, 24}

Phrases == {"legal  winner"}

Passwords == {"hunter2"}

WalletValuesSet ==
  [private_key : Opt(PrivateKeyStrings), public_key : Opt(PublicKeyStrings),
   address : Opt(AddressStrings)]

EnglishOnly == [validates |-> {English}, seed_ok |-> TRUE]

Counts == 0 .. MaxCount

StartOn(opts, alg) ==
  /\ options = opts
  /\ algebra = alg
  /\ i = 0
  /\ printed = <<>>
  /\ result = Running
  /\ path = None
  /\ via = None

\* Every way of filling (or not filling) the three import values and the three HD
\* import values, with and without the other structure present.
HdSelections ==
  {[DefaultHdValues EXCEPT !.mnemonic = m, !.extended_private_key = x,
                           !.extended_public_key = y, !.password = pw] :
     m \in Opt({"legal winner"}), x \in Opt(ExtendedPrivateKeyStrings),
     y \in Opt(ExtendedPublicKeyStrings), pw \in Opt(Passwords)}

Init ==
  \E wallet_values \in Opt(WalletValuesSet), hd_values \in Opt(HdSelections),
     count \in Counts, json \in BOOLEAN :
    /\ IsSome(wallet_values) /\ IsSome(hd_values) => hd_values = Some(DefaultHdValues)
    /\ StartOn(EthereumOptions(wallet_values, hd_values, count, json), EnglishOnly)

Spec == Init /\ [][Next]_vars

(***************************************************************************)
(* Runs of the HD arm alone, one family of inputs per group of branches.   *)
(***************************************************************************)
Repeats == 1 .. MaxRepeat

StartHd(hd_values, count, alg) ==
  StartOn(EthereumOptions(None, Some(hd_values), count, FALSE), alg)

\* One representative of each arm of the match on (mnemonic, xprv, xpub).
HdArms ==
  {DefaultHdValues,
   [DefaultHdValues EXCEPT !.mnemonic = Some("legal winner")],
   [DefaultHdValues EXCEPT !.extended_private_key = Some("xprv(A)")],
   [DefaultHdValues EXCEPT !.extended_public_key = Some("xpub(A)")]}

\* Every convention name and custom path with every index, in every arm.
InitPath ==
  \E arm \in HdArms, p \in Opt(PathStrings), idx \in Opt(IndexStrings), count \in Repeats :
    StartHd([arm EXCEPT !.path = p, !.index = idx], count, EnglishOnly)

SpecPath == InitPath /\ [][Next]_vars

\* The generate arm: every language and word count.
InitGenerate ==
  \E language \in Opt(LanguageStrings), word_count \in Opt(WordCounts),
     password \in Opt(Passwords), p \in Opt({"ledger-live", "Ethereum"}),
     count \in Repeats :
    StartHd([DefaultHdValues EXCEPT !.language = language, !.word_count = word_count,
                                    !.password = password, !.path = p],
            count, EnglishOnly)

SpecGenerate == InitGenerate /\ [][Next]_vars

\* The mnemonic arm: a supplied phrase under every verdict of the eight wordlists.
InitMnemonic ==
  \E phrase \in Phrases, validates \in SUBSET WordlistSet, seed_ok \in BOOLEAN,
     language \in Opt({"spanish"}), word_count \in Opt({13}),
     password \in Opt(Passwords), p \in Opt({"Ethereum"}), count \in Repeats :
    StartHd([DefaultHdValues EXCEPT !.mnemonic = Some(phrase), !.language = language,
                                    !.word_count = word_count, !.password = password,
                                    !.path = p],
            count, [validates |-> validates, seed_ok |-> seed_ok])

SpecMnemonic == InitMnemonic /\ [][Next]_vars

\* The extended-key arms: an extended private or public key with every other option.
InitExtended ==
  \E xprv \in Opt(ExtendedPrivateKeyStrings), xpub \in Opt(ExtendedPublicKeyStrings),
     p \in Opt(PathStrings), idx \in Opt(IndexStrings), password \in Opt(Passwords),
     language \in Opt({"french"}), word_count \in Opt({13}),
     account \in Opt({"1"}), change \in Opt({"1"}), count \in Repeats :
    /\ (xprv = None) # (xpub = None)
    /\ StartHd([DefaultHdValues EXCEPT !.extended_private_key = xprv,
                                       !.extended_public_key = xpub, !.path = p,
                                       !.index = idx, !.password = password,
                                       !.language = language, !.word_count = word_count,
                                       !.account = account, !.change = change],
               count, EnglishOnly)

SpecExtended == InitExtended /\ [][Next]_vars

(***************************************************************************)
(* Properties.                                                             *)
(***************************************************************************)
NumberSet(values) == Cardinality({n \in 1 .. Len(values) : IsSome(values[n])})

InImport == IsSome(options.wallet_values) /\ options.hd_values = None

InHd == options.wallet_values = None /\ IsSome(options.hd_values)

wallet_values == options.wallet_values[1]

hd_values == options.hd_values[1]

ImportValues == <<wallet_values.private_key, wallet_values.public_key, wallet_values.address>>

HdImportValues ==
  <<hd_values.mnemonic, hd_values.extended_private_key, hd_values.extended_public_key>>

AmbiguousInput ==
  \/ InImport /\ NumberSet(ImportValues) > 1
  \/ InHd /\ NumberSet(HdImportValues) > 1

InGenerate == InHd /\ NumberSet(HdImportValues) = 0

InFromMnemonic == InHd /\ NumberSet(HdImportValues) = 1 /\ IsSome(hd_values.mnemonic)

InFromExtendedPrivate ==
  InHd /\ NumberSet(HdImportValues) = 1 /\ IsSome(hd_values.extended_private_key)

InFromExtendedPublic ==
  InHd /\ NumberSet(HdImportValues) = 1 /\ IsSome(hd_values.extended_public_key)

InImportAddress == InImport /\ NumberSet(ImportValues) = 1 /\ IsSome(wallet_values.address)

\* The last pass of the loop printed a wallet.
LastPrinted == i >= 1 /\ Len(printed) = i

LastWallet == printed[Len(printed)].wallet

\* C1: with more than one of {private key, public key, address}, or more than one of
\* {mnemonic, extended private key, extended public key}, supplied, the first pass ends
\* print with the AmbiguousInput error returned to the caller and prints no wallet.
C1_AmbiguousInputIsReturned ==
  (AmbiguousInput /\ i >= 1) => (result = ReturnedErr("AmbiguousInput") /\ printed = <<>>)

\* C7: in the address import, a valid address string prints a wallet whose address is
\* the canonical string of the parsed address and whose other fields are all absent;
\* an invalid one ends print with the address error and prints nothing.
C7_AddressImport ==
  (InImportAddress /\ i >= 1) =>
    LET parsed == AddressFromStr(wallet_values.address[1]) IN
    IF parsed.ok
    THEN /\ result.kind \in {"Running", "Ok"}
         /\ LastPrinted
         /\ \A n \in 1 .. Len(printed) :
              printed[n].wallet =
                [path |-> None, password |-> None, mnemonic |-> None,
                 extended_private_key |-> None, extended_public_key |-> None,
                 private_key |-> None, public_key |-> None,
                 address |-> AddressToString(parsed.val)]
    ELSE result = ReturnedErr("AddressError") /\ printed = <<>> /\ i = 1

C7_Witness ==
  /\ InImportAddress
  /\ wallet_values.address = Some("0xab5801a7")
  /\ LastPrinted
  /\ LastWallet.address = "0xAb5801a7"

\* C8: the passes run one after another and stop at the first that fails: while none
\* has failed every pass started has printed its wallet; when pass k is the first to
\* fail, k-1 wallets are printed, print has ended with that failure and k stays the
\* number of passes started; print returns Ok only after count passes and count wallets.
C8_StopsAtFirstFailure ==
  /\ i <= options.count
  /\ result = Running => Len(printed) = i
  /\ result.kind \in {"Err", "Panic"} => (i >= 1 /\ Len(printed) = i - 1)
  /\ result = ReturnedOk => (i = options.count /\ Len(printed) = options.count)

C8_Witness ==
  /\ result.kind = "Err"
  /\ i = 2
  /\ Len(printed) = 1
  /\ options.count > 2

\* The index and the path the HD arm is asked for.
RequestedIndex == IF hd_values.index = None THEN "0" ELSE hd_values.index[1]

\* C2: the resolved derivation path is m/44'/60'/0'/{index} for ethereum, ledger-legacy,
\* trezor and no convention, m/44'/60'/{index}'/0 for keepkey, m/44'/60'/{index}'/0/0
\* for ledger-live, and any other string verbatim; a missing index is "0".  A printed
\* wallet that carries a path carries that path.
C2_ResolvedPath ==
  (InHd /\ i >= 1) =>
    /\ path =
         Some(CASE hd_values.path \in
                     {None, Some("ethereum"), Some("ledger-legacy"), Some("trezor")} ->
                     "m/44'/60'/0'/" \o RequestedIndex
                [] hd_values.path = Some("keepkey") ->
                     "m/44'/60'/" \o RequestedIndex \o "'/0"
                [] hd_values.path = Some("ledger-live") ->
                     "m/44'/60'/" \o RequestedIndex \o "'/0/0"
                [] OTHER -> hd_values.path[1])
    /\ (LastPrinted /\ IsSome(LastWallet.path)) => LastWallet.path = path

C2_Witness ==
  /\ InFromExtendedPrivate
  /\ hd_values.path = Some("keepkey")
  /\ hd_values.index = Some("5")
  /\ LastPrinted
  /\ LastWallet.path = Some("m/44'/60'/5'/0")

\* The supplied phrase, and the first wordlist of the fixed order that validates it.
SuppliedPhrase == hd_values.mnemonic[1]

FirstValidating ==
  Wordlists[CHOOSE n \in 1 .. Len(Wordlists) :
              /\ Wordlists[n] \in algebra.validates
              /\ \A m \in 1 .. n - 1 : Wordlists[m] \notin algebra.validates]

\* C3: a wallet printed by the mnemonic arm carries the phrase string and the master
\* key of the first wordlist, in the order chinese_simplified .. spanish, that validates
\* the phrase, never those of a later one; and the arm prints whenever some wordlist
\* validates the phrase, its seed yields a master key and the path derives.
C3_FirstWordlistWins ==
  (InFromMnemonic /\ i >= 1) =>
    /\ LastPrinted =>
         /\ algebra.validates # {}
         /\ via = Some(FirstValidating)
         /\ LET m == MnemonicFromPhrase(FirstValidating, SuppliedPhrase, algebra).val
                master == MnemonicToExtendedPrivateKey(m, hd_values.password, algebra).val
            IN /\ LastWallet.mnemonic = Some(MnemonicToString(m))
               /\ LastWallet.extended_private_key =
                    Some(ExtendedPrivateKeyToString(
                           ExtendedPrivateKeyDerive(master, path[1]).val))
    /\ (algebra.validates # {} /\ algebra.seed_ok /\ DerivationPathFromStr(path[1]).ok)
         => LastPrinted

C3_Witness ==
  /\ InFromMnemonic
  /\ algebra.validates = {ChineseTraditional, English, Spanish}
  /\ SuppliedPhrase = "legal  winner"
  /\ LastPrinted
  /\ via = Some(ChineseTraditional)
  /\ LastWallet.mnemonic = Some("legal winner")

\* C4: a phrase that no wordlist validates ends the first pass of the mnemonic arm with
\* InvalidMnemonic and nothing else, whatever the path, the password and the seed, and
\* prints no wallet.
C4_InvalidMnemonic ==
  (InFromMnemonic /\ i >= 1 /\ algebra.validates = {}) =>
    (result = ReturnedErr("InvalidMnemonic") /\ printed = <<>> /\ i = 1)

C4_Witness ==
  /\ InFromMnemonic
  /\ algebra.validates = {}
  /\ hd_values.path = Some("Ethereum")
  /\ result = ReturnedErr("InvalidMnemonic")

\* C9: in the mnemonic arm the language hint and word_count are not consulted: the
\* outcome of the last pass (the wallet printed or the error, and the wordlist used) is
\* the outcome of the same call with any other language and word_count, and the trial
\* starts at chinese_simplified.
C9_HintNotConsulted ==
  (InFromMnemonic /\ i >= 1) =>
    /\ \A language \in Opt(LanguageStrings), word_count \in Opt(WordCounts), e \in Entropy :
         LET other == HdWallet([hd_values EXCEPT !.language = language,
                                                 !.word_count = word_count],
                               e, algebra)
         IN /\ other.via = via
            /\ IF other.kind = "Ok"
               THEN LastPrinted /\ LastWallet = other.wallet
               ELSE result = [kind |-> other.kind, error |-> other.error] /\ printed = <<>>
    /\ (LastPrinted /\ ChineseSimplified \in algebra.validates)
         => via = Some(ChineseSimplified)

C9_Witness ==
  /\ InFromMnemonic
  /\ hd_values.language = Some("spanish")
  /\ hd_values.word_count = Some(13)
  /\ algebra.validates = {ChineseSimplified, Spanish}
  /\ LastPrinted
  /\ via = Some(ChineseSimplified)

\* The word count and the wordlist the generate arm is asked for.
RequestedWordCount == IF hd_values.word_count = None THEN 12 ELSE hd_values.word_count[1]

RequestedWordlist ==
  IF IsSome(hd_values.language) /\ hd_values.language[1] \in WordlistSet
  THEN hd_values.language[1]
  ELSE English

\* C10: the generate arm generates the mnemonic with the wordlist named by the requested
\* language and the requested word count, English when no (known) language is given and
\* 12 when no word count is given; a word count the algebra rejects ends the pass with
\* InvalidWordCount and prints no wallet.
C10_GenerateLanguageAndWordCount ==
  (InGenerate /\ i >= 1) =>
    IF RequestedWordCount \in ValidWordCounts
    THEN LastPrinted =>
           /\ via = Some(RequestedWordlist)
           /\ \E e \in Entropy :
                LastWallet.mnemonic =
                  Some(MnemonicToString(
                         MnemonicNew(RequestedWordlist, RequestedWordCount, e).val))
    ELSE result = ReturnedErr("InvalidWordCount") /\ printed = <<>> /\ i = 1

C10_Witness ==
  /\ InGenerate
  /\ hd_values.language = Some("japanese")
  /\ hd_values.word_count = Some(24)
  /\ LastPrinted
  /\ via = Some(Japanese)
  /\ LastWallet.mnemonic = Some("japanese:24:1")

\* C5: the extended private key arm with no path requested applies no derivation: it
\* always prints, the wallet has no path, its extended private key is the imported key
\* and its extended public key that key's; with a path requested the key is derived
\* along the resolved path and the wallet's path is that path.
C5_ExtendedPrivateImport ==
  (InFromExtendedPrivate /\ i >= 1) =>
    LET parsed == ExtendedPrivateKeyFromStr(hd_values.extended_private_key[1])
        resolved == ResolvePath(hd_values.path, RequestedIndex)
    IN /\ (parsed.ok /\ hd_values.path = None) => LastPrinted
       /\ LastPrinted =>
            /\ parsed.ok
            /\ IF hd_values.path = None
               THEN /\ LastWallet.path = None
                    /\ LastWallet.extended_private_key =
                         Some(ExtendedPrivateKeyToString(parsed.val))
                    /\ LastWallet.extended_public_key =
                         Some(ExtendedPublicKeyToString(ToExtendedPublicKey(parsed.val)))
               ELSE /\ LastWallet.path = Some(resolved)
                    /\ LastWallet.extended_private_key =
                         Some(ExtendedPrivateKeyToString(
                                ExtendedPrivateKeyDerive(parsed.val, resolved).val))

C5_Witness ==
  /\ InFromExtendedPrivate
  /\ hd_values.path = None
  /\ hd_values.index = Some("5")
  /\ LastPrinted
  /\ LastWallet.path = None
  /\ LastWallet.extended_private_key = Some("xprv(A)")
  /\ LastWallet.extended_public_key = Some("xpub(A)")

\* C6: a wallet printed by the extended public key arm has exactly the fields path (only
\* if a path was requested), extended_public_key, public_key and address; mnemonic,
\* extended_private_key, private_key and password are absent.
C6_ExtendedPublicFields ==
  (InFromExtendedPublic /\ LastPrinted) =>
    /\ IsSome(LastWallet.path) => IsSome(hd_values.path)
    /\ IsSome(LastWallet.extended_public_key)
    /\ IsSome(LastWallet.public_key)
    /\ LastWallet.mnemonic = None
    /\ LastWallet.extended_private_key = None
    /\ LastWallet.private_key = None
    /\ LastWallet.password = None

\* The extended key the arm is given, parsed.
SuppliedExtendedKey ==
  IF IsSome(hd_values.extended_private_key)
  THEN ExtendedPrivateKeyFromStr(hd_values.extended_private_key[1])
  ELSE ExtendedPublicKeyFromStr(hd_values.extended_public_key[1])

\* C11: in the extended private and extended public key arms with no path requested,
\* index, account and change have no effect: the outcome of the last pass (the wallet
\* printed, or the error) is the outcome of the same call with any other index, account
\* and change; a key that parses is always printed, whatever the index, underived and
\* with no path.
C11_IndexAccountChangeIgnored ==
  ((InFromExtendedPrivate \/ InFromExtendedPublic) /\ hd_values.path = None /\ i >= 1) =>
    /\ \A index \in Opt(IndexStrings), account \in Opt({"0", "1"}),
          change \in Opt({"0", "1"}), e \in Entropy :
         LET other == HdWallet([hd_values EXCEPT !.index = index, !.account = account,
                                                 !.change = change],
                               e, algebra)
         IN IF other.kind = "Ok"
            THEN LastPrinted /\ LastWallet = other.wallet
            ELSE result = [kind |-> other.kind, error |-> other.error] /\ printed = <<>>
    /\ IF SuppliedExtendedKey.ok
       THEN /\ LastPrinted
            /\ LastWallet.path = None
            /\ LastWallet.extended_public_key =
                 Some(ExtendedPublicKeyToString(ToExtendedPublicKey(SuppliedExtendedKey.val)))
            /\ LastWallet.public_key =
                 Some(PublicKeyToString(ExtendedPublicKeyToPublicKey(
                                          ToExtendedPublicKey(SuppliedExtendedKey.val))))
            /\ IsSome(hd_values.extended_private_key) =>
                 LastWallet.extended_private_key =
                   Some(ExtendedPrivateKeyToString(SuppliedExtendedKey.val))
       ELSE result = ReturnedErr("InvalidExtendedKey") /\ printed = <<>>

C11_Witness ==
  /\ InFromExtendedPublic
  /\ hd_values.path = None
  /\ hd_values.index = Some("x")
  /\ hd_values.account = Some("1")
  /\ hd_values.change = Some("1")
  /\ LastPrinted
  /\ LastWallet.path = None
  /\ LastWallet.extended_public_key = Some("xpub(A)")

=============================================================================
